---- MODULE Spec2Model ----
(***************************************************************************)
(* Supply-chain helper scripts:                                            *)
(*   - the Selective Script Runner  (scripts/run-trusted-scripts.js,       *)
(*     src/unnamed/part_001)                                               *)
(*   - the Integrity & Policy Verifier (scripts/verify-packages.js,        *)
(*     src/unnamed/part_002; src/scripts/verify-packages.js is an older    *)
(*     copy of it with the same integrity / audit / signature logic).      *)
(*                                                                         *)
(* Strings are sequences of atoms.  The atoms are a prefix-free alphabet   *)
(* (no atom is a prefix of another), so String.prototype.startsWith and    *)
(* === on the JavaScript strings coincide with prefix and equality of the  *)
(* atom sequences.                                                         *)
(***************************************************************************)
EXTENDS Integers, Sequences, FiniteSets

VARIABLES
    \* ---- Script Runner (part_001) ----
    trustFile,   \* trusted-packages.json on disk, as the runner finds it
    lockFile,    \* package-lock.json on disk, as the runner finds it
    pc,          \* position in main(): "load", "scan", "rebuild", "exited"
    trusted,     \* const trusted = loadTrustedPackages()
    installed,   \* const installed = getInstalledPackages()
    toRebuild,   \* const toRebuild = []
    idx,         \* position of the for..of loop over toRebuild (1-based)
    calls,       \* history of execSync(`npm rebuild ${pkg}`) invocations
    lockRead,    \* whether package-lock.json was read (readFileSync)
    exited,      \* whether the process has ended
    exitCode,    \* its exit status (meaningful once exited)
    uncaught,    \* whether it ended by an uncaught exception
    \* ---- Verifier (part_002) ----
    vpc,         \* position in main(): the check to run next ("npmrc",
                 \* "integrity", "audit", "signatures", "trusted"), "return"
                 \* (a check has run), "summary", "exited", or "off"
    results,     \* the results object: check name -> boolean, as far as built
    env,         \* what the check that has just run read and handed back
    summary,     \* the lines of the Verification Summary, once printed
    vExited,     \* whether the verifier process has ended
    vExitCode    \* its exit status (meaningful once vExited)

runnerVars == <<trustFile, lockFile, pc, trusted, installed, toRebuild, idx,
                calls, lockRead, exited, exitCode, uncaught>>
verifierVars == <<vpc, results, env, summary, vExited, vExitCode>>
vars == <<runnerVars, verifierVars>>

-----------------------------------------------------------------------------
(* Bounds of the model *)

\* longest package mapping of a runner lockfile
MaxLock == 2
\* longest "packages" list of a trust policy
MaxTrust == 2

-----------------------------------------------------------------------------
(* JavaScript values and strings *)

Str(s) == [t |-> "string", s |-> s]
Undefined == [t |-> "undefined", s |-> <<>>]
\* a non-zero number where a string is expected
NumberValue == [t |-> "number", s |-> <<>>]

\* truthiness, as in `if (pkg.integrity)` or `!p.name`
Truthy(v) == v.t = "number" \/ (v.t = "string" /\ v.s # <<>>)

\* String(v) as string concatenation applies it: undefined + '/' is "undefined/"
StringOf(v) == IF v.t = "undefined" THEN <<"undefined">> ELSE v.s

\* s.startsWith(p)
StartsWith(s, p) == Len(p) <= Len(s) /\ SubSeq(s, 1, Len(p)) = p

\* pkgPath.replace(/^node_modules\//, ''): one leading "node_modules/" removed
StripNodeModules(k) ==
    IF Len(k) >= 2 /\ k[1] = "node_modules" /\ k[2] = "/"
    THEN SubSeq(k, 3, Len(k))
    ELSE k

\* sequences over S of length at most n
SeqsUpTo(S, n) == UNION {[1..k -> S] : k \in 0..n}

NoRepeat(s) == \A i, j \in 1..Len(s) : s[i] = s[j] => i = j

-----------------------------------------------------------------------------
(* Files on disk *)

AbsentFile == [kind |-> "absent", hasPackages |-> FALSE, packages |-> <<>>]
\* present, not valid JSON: JSON.parse throws
MalformedFile == [kind |-> "malformed", hasPackages |-> FALSE, packages |-> <<>>]
\* present (existsSync is true), readFileSync throws (a directory, no permission)
UnreadableFile == [kind |-> "unreadable", hasPackages |-> FALSE, packages |-> <<>>]
\* a JSON object; hasPackages tells whether it has a "packages" member
JsonFile(has, pk) == [kind |-> "json", hasPackages |-> has, packages |-> pk]

Sha512Digest == Str(<<"sha512-", "AAA">>)
Sha1Digest == Str(<<"sha1-", "AAA">>)

LockEntry(name, integrity) == [name |-> name, integrity |-> integrity]
TrustEntry(name, reason) == [name |-> name, reason |-> reason]

\* keys of the lockfile's package mapping the runner is tried on
RootKey == <<>>
LockKeys ==
    { RootKey,
      <<"node_modules", "/", "esbuild">>,
      <<"node_modules", "/", "@scope", "/", "esbuild">>,
      <<"node_modules", "/", "foo">>,
      <<"node_modules", "/", "foo", "-", "bar">>,
      <<"node_modules", "/", "foo", "/", "node_modules", "/", "bar">>,
      <<"node_modules", "/", "undefined", "/", "node_modules", "/", "bar">>,
      <<"foo", "/", "bar">> }

\* the "name" members of trust entries the runner is tried on
TrustNames ==
    { Undefined, Str(<<"esbuild">>), Str(<<"foo">>), Str(<<"bar">>),
      Str(<<"@scope">>) }

Reason == Str(<<"reason">>)

RunnerLockFiles ==
    {AbsentFile, MalformedFile, JsonFile(FALSE, <<>>)} \cup
    { JsonFile(TRUE, [i \in 1..Len(ks) |-> LockEntry(ks[i], Sha512Digest)]) :
        ks \in {s \in SeqsUpTo(LockKeys, MaxLock) : NoRepeat(s)} }

RunnerTrustFiles ==
    {AbsentFile, MalformedFile, JsonFile(FALSE, <<>>)} \cup
    { JsonFile(TRUE, [i \in 1..Len(ns) |-> TrustEntry(ns[i], Reason)]) :
        ns \in SeqsUpTo(TrustNames, MaxTrust) }

-----------------------------------------------------------------------------
(* Script Runner: src/unnamed/part_001 *)

\* matchesTrusted without the '/' after the entry name
matchesTrustedNoSlash(pkgPath, trustedList) ==
    LET pkgName == StripNodeModules(pkgPath)
    IN  \E i \in 1..Len(trustedList) :
          \/ (trustedList[i].name.t = "string" /\ pkgName = trustedList[i].name.s)
          \/ StartsWith(pkgName, StringOf(trustedList[i].name))

matchesTrusted(pkgPath, trustedList) ==
    LET pkgName == StripNodeModules(pkgPath)
    IN  \E i \in 1..Len(trustedList) :
          \/ (trustedList[i].name.t = "string" /\ pkgName = trustedList[i].name.s)
          \/ StartsWith(pkgName, StringOf(trustedList[i].name) \o <<"/">>)

\* Object.keys(lock.packages || {}).filter(k => k !== '')
InstalledKeys(file) ==
    LET pk == IF file.hasPackages THEN file.packages ELSE <<>>
        keys == [i \in 1..Len(pk) |-> pk[i].name]
        NotRoot(k) == k # <<>>
    IN  SelectSeq(keys, NotRoot)

\* the loop of main() that fills toRebuild
SelectToRebuild(inst, trustedList) ==
    LET Match(k) == matchesTrusted(k, trustedList)
        sel == SelectSeq(inst, Match)
    IN  [i \in 1..Len(sel) |-> StripNodeModules(sel[i])]

Exit(code) ==
    /\ exited' = TRUE
    /\ exitCode' = code
    /\ uncaught' = FALSE
    /\ pc' = "exited"

\* an exception nobody catches: Node prints it and ends with status 1
Crash ==
    /\ exited' = TRUE
    /\ exitCode' = 1
    /\ uncaught' = TRUE
    /\ pc' = "exited"

\* loadTrustedPackages that treats an absent policy as an empty one
RunnerLoadAbsentAsEmpty ==
    /\ pc = "load"
    /\ \/ /\ trustFile.kind = "absent"
          /\ trusted' = <<>>
          /\ pc' = "scan"
          /\ UNCHANGED <<exited, exitCode, uncaught>>
       \/ /\ trustFile.kind = "malformed"
          /\ Crash
          /\ UNCHANGED trusted
       \/ /\ trustFile.kind = "json"
          /\ trusted' = IF trustFile.hasPackages THEN trustFile.packages ELSE <<>>
          /\ pc' = "scan"
          /\ UNCHANGED <<exited, exitCode, uncaught>>
    /\ UNCHANGED <<trustFile, lockFile, installed, toRebuild, idx, calls, lockRead>>
    /\ UNCHANGED verifierVars

\* const trusted = loadTrustedPackages()
RunnerLoad ==
    /\ pc = "load"
    /\ \/ /\ trustFile.kind = "absent"
          /\ Exit(1)
          /\ UNCHANGED trusted
       \/ /\ trustFile.kind = "malformed"
          /\ Crash
          /\ UNCHANGED trusted
       \/ /\ trustFile.kind = "json"
          /\ trusted' = IF trustFile.hasPackages THEN trustFile.packages ELSE <<>>
          /\ pc' = "scan"
          /\ UNCHANGED <<exited, exitCode, uncaught>>
    /\ UNCHANGED <<trustFile, lockFile, installed, toRebuild, idx, calls, lockRead>>
    /\ UNCHANGED verifierVars

\* getInstalledPackages(), the selection loop and the exit when nothing matches
RunnerScan ==
    /\ pc = "scan"
    /\ \/ /\ lockFile.kind = "absent"
          /\ installed' = <<>>
          /\ toRebuild' = <<>>
          /\ lockRead' = FALSE
          /\ Exit(0)
          /\ UNCHANGED idx
       \/ /\ lockFile.kind = "malformed"
          /\ lockRead' = TRUE
          /\ Crash
          /\ UNCHANGED <<installed, toRebuild, idx>>
       \/ /\ lockFile.kind = "json"
          /\ lockRead' = TRUE
          /\ installed' = InstalledKeys(lockFile)
          /\ toRebuild' = SelectToRebuild(InstalledKeys(lockFile), trusted)
          /\ IF SelectToRebuild(InstalledKeys(lockFile), trusted) = <<>>
             THEN Exit(0) /\ UNCHANGED idx
             ELSE /\ pc' = "rebuild"
                  /\ idx' = 1
                  /\ UNCHANGED <<exited, exitCode, uncaught>>
    /\ UNCHANGED <<trustFile, lockFile, trusted, calls>>
    /\ UNCHANGED verifierVars

\* what execSync(`npm rebuild ${pkg}`, {timeout: 60000}) can do
RebuildOutcomes == {"ok", "nonzero", "timeout"}

\* the loop body with a catch that logs and goes on to the next package
RunnerRebuildKeepGoing ==
    /\ pc = "rebuild"
    /\ idx <= Len(toRebuild)
    /\ \E outcome \in RebuildOutcomes :
         calls' = Append(calls, [pkg |-> toRebuild[idx], outcome |-> outcome])
    /\ idx' = idx + 1
    /\ UNCHANGED <<pc, exited, exitCode, uncaught>>
    /\ UNCHANGED <<trustFile, lockFile, trusted, installed, toRebuild, lockRead>>
    /\ UNCHANGED verifierVars

\* one iteration of `for (const pkg of toRebuild)`
RunnerRebuild ==
    /\ pc = "rebuild"
    /\ idx <= Len(toRebuild)
    /\ \E outcome \in RebuildOutcomes :
         /\ calls' = Append(calls, [pkg |-> toRebuild[idx], outcome |-> outcome])
         /\ IF outcome = "ok"
            THEN /\ idx' = idx + 1
                 /\ UNCHANGED <<pc, exited, exitCode, uncaught>>
            ELSE /\ Exit(1)
                 /\ UNCHANGED idx
    /\ UNCHANGED <<trustFile, lockFile, trusted, installed, toRebuild, lockRead>>
    /\ UNCHANGED verifierVars

\* after the loop: process.exit(0)
RunnerFinish ==
    /\ pc = "rebuild"
    /\ idx > Len(toRebuild)
    /\ Exit(0)
    /\ UNCHANGED <<trustFile, lockFile, trusted, installed, toRebuild, idx, calls,
                   lockRead>>
    /\ UNCHANGED verifierVars


\* the verifier is not running
VerifierOff ==
    /\ vpc = "off"
    /\ results = <<>>
    /\ env = [check |-> "none"]
    /\ summary = <<>>
    /\ vExited = FALSE
    /\ vExitCode = 0

RunnerInit ==
    /\ trustFile \in RunnerTrustFiles
    /\ lockFile \in RunnerLockFiles
    /\ pc = "load"
    /\ trusted = <<>>
    /\ installed = <<>>
    /\ toRebuild = <<>>
    /\ idx = 0
    /\ calls = <<>>
    /\ lockRead = FALSE
    /\ exited = FALSE
    /\ exitCode = 0
    /\ uncaught = FALSE
    /\ VerifierOff

RunnerNext ==
    \/ RunnerLoad
    \/ RunnerScan
    \/ RunnerRebuild
    \/ RunnerFinish

SpecRunner == RunnerInit /\ [][RunnerNext]_vars

-----------------------------------------------------------------------------
(* Script Runner: properties *)

\* the matching rule as the specification words it: p is t, or p is t, a '/'
\* and some rest
NameRule(p, t) ==
    \/ p = t
    \/ \E k \in 0..Len(p) : p = t \o <<"/">> \o SubSeq(p, k + 1, Len(p))

\* some trust entry of the policy on disk has a name that p matches
AllowListed(p) ==
    \E j \in 1..Len(trustFile.packages) :
        /\ trustFile.packages[j].name.t = "string"
        /\ NameRule(p, trustFile.packages[j].name.s)

\* p is the name of a non-root package of the lockfile on disk
InstalledName(p) ==
    \E j \in 1..Len(lockFile.packages) :
        /\ lockFile.packages[j].name # RootKey
        /\ StripNodeModules(lockFile.packages[j].name) = p

\* C1: every rebuild invocation targets an installed, non-root package whose
\* name equals a trust entry's name or starts with that name followed by '/'.
C1_OnlyAllowListedRebuilt ==
    \A i \in 1..Len(calls) :
        InstalledName(calls[i].pkg) /\ AllowListed(calls[i].pkg)

FooBarKey == <<"node_modules", "/", "foo", "-", "bar">>
FooNestedKey == <<"node_modules", "/", "foo", "/", "node_modules", "/", "bar">>
ScopedEsbuildKey == <<"node_modules", "/", "@scope", "/", "esbuild">>
FooEntry == TrustEntry(Str(<<"foo">>), Reason)
EsbuildEntry == TrustEntry(Str(<<"esbuild">>), Reason)

\* C2: an installed name p matches a trust entry name t exactly when p = t or
\* p starts with t followed by '/': 'foo-bar' does not match 'foo',
\* '@scope/esbuild' does not match 'esbuild'; with one named entry the runner
\* selects exactly the installed names the rule admits.
C2_PrefixMatch ==
    /\ \A i \in 1..Len(installed) : \A j \in 1..Len(trusted) :
         trusted[j].name.t = "string" =>
           (matchesTrusted(installed[i], <<trusted[j]>>)
              <=> NameRule(StripNodeModules(installed[i]), trusted[j].name.s))
    /\ ~matchesTrusted(FooBarKey, <<FooEntry>>)
    /\ ~matchesTrusted(ScopedEsbuildKey, <<EsbuildEntry>>)
    /\ (pc = "rebuild" /\ Len(trusted) = 1 /\ trusted[1].name.t = "string") =>
         LET Admits(k) == NameRule(StripNodeModules(k), trusted[1].name.s)
             sel == SelectSeq(installed, Admits)
         IN  toRebuild = [i \in 1..Len(sel) |-> StripNodeModules(sel[i])]

\* C2 witness: with 'foo' trusted and 'foo-bar' and 'foo/node_modules/bar'
\* installed, only the second is selected.
C2_Witness ==
    /\ pc = "rebuild"
    /\ trusted = <<FooEntry>>
    /\ installed = <<FooBarKey, FooNestedKey>>
    /\ toRebuild = <<StripNodeModules(FooNestedKey)>>

\* C3: a failed rebuild (non-zero exit or timeout) is the last invocation of
\* the run, and the process has exited with status 1.
C3_AbortOnFailure ==
    \A i \in 1..Len(calls) :
        calls[i].outcome # "ok" =>
            /\ i = Len(calls)
            /\ exited /\ exitCode = 1 /\ pc = "exited"

\* C3 witness: two packages to rebuild, the first timed out, the run is over.
C3_Witness ==
    /\ Len(toRebuild) = 2
    /\ Len(calls) = 1
    /\ calls[1].outcome = "timeout"
    /\ exited

\* the non-root lockfile names, in lockfile order, that match a trust entry
ExpectedRebuilds ==
    LET keys == InstalledKeys(lockFile)
        Wanted(k) == AllowListed(StripNodeModules(k))
        sel == SelectSeq(keys, Wanted)
    IN  [i \in 1..Len(sel) |-> StripNodeModules(sel[i])]

\* C4: in a finished run whose trust policy was loaded and whose rebuilds all
\* succeeded, the invocations are exactly the matching non-root lockfile
\* packages, in lockfile order, one each, and the exit status is 0.  (Stated
\* for the runs in which both files are absent or parse; the claim says no
\* less of them.)
C4_ExactSequence ==
    ( /\ exited
      /\ trustFile.kind = "json"
      /\ lockFile.kind \in {"absent", "json"}
      /\ \A i \in 1..Len(calls) : calls[i].outcome = "ok" )
    => /\ [i \in 1..Len(calls) |-> calls[i].pkg] = ExpectedRebuilds
       /\ exitCode = 0

\* C5: with the trust policy absent the run ends at once with status 1: the
\* lockfile is not read and nothing is rebuilt.
C5_AbsentPolicyExits ==
    (trustFile.kind = "absent" /\ pc # "load") =>
        /\ pc = "exited" /\ exited /\ exitCode = 1
        /\ ~lockRead
        /\ installed = <<>>
        /\ calls = <<>>

\* C5 witness: the policy is absent, a lockfile with packages is there, and
\* the run is over.
C5_Witness ==
    /\ trustFile.kind = "absent"
    /\ lockFile.kind = "json" /\ Len(lockFile.packages) = 2
    /\ exited

-----------------------------------------------------------------------------
(* Verifier: src/unnamed/part_002 *)

\* largest number of lockfile entries with a sha512 digest
MaxSha == 113
\* largest number of lockfile entries without a digest
MaxMissing == 6
\* largest count the audit reports for one severity
MaxCount == 1

\* the keys of the results object, in the order main() evaluates them
CheckOrder == <<"npmrc", "integrity", "audit", "signatures", "trusted">>
Checks == {CheckOrder[i] : i \in 1..Len(CheckOrder)}

\* what a check hands back: its return value, the kind of its closing
\* diagnostic, and whether it threw instead of returning
Returned(ret, level) == [threw |-> FALSE, ret |-> ret, level |-> level]
Threw == [threw |-> TRUE, ret |-> FALSE, level |-> "fail"]

\* ---- 4. .npmrc validation ----

RequiredKeys == {"ignore-scripts", "audit-level", "package-lock", "strict-ssl"}
RecommendedKeys == {"save-exact", "engine-strict", "prefer-offline", "optional"}

\* .npmrc as the check sees it: absent, unreadable, or a text, given by the
\* setting keys that occur in it (content.includes(key))
NpmrcFiles ==
    { [kind |-> "absent", keys |-> {}], [kind |-> "unreadable", keys |-> {}] } \cup
    { [kind |-> "text", keys |-> ks] : ks \in SUBSET (RequiredKeys \cup RecommendedKeys) }

\* verifyNpmrc with the required list of the older script, which has no
\* 'ignore-scripts=true'
verifyNpmrcThreeRequired(file) ==
    IF file.kind = "absent" THEN Returned(TRUE, "warn")
    ELSE IF file.kind = "unreadable" THEN Threw
    ELSE LET allGood == \A k \in RequiredKeys \ {"ignore-scripts"} : k \in file.keys
             noWarning == \A k \in RequiredKeys \cup RecommendedKeys : k \in file.keys
         IN  Returned(allGood, IF noWarning THEN "ok" ELSE "warn")

verifyNpmrc(file) ==
    IF file.kind = "absent" THEN Returned(TRUE, "warn")
    ELSE IF file.kind = "unreadable" THEN Threw
    ELSE LET allGood == \A k \in RequiredKeys : k \in file.keys
             noWarning == \A k \in RequiredKeys \cup RecommendedKeys : k \in file.keys
         IN  Returned(allGood, IF noWarning THEN "ok" ELSE "warn")

\* ---- 1. Integrity hashes ----

\* a lockfile of the verifier: an optional root entry, then entries with a
\* sha512 digest, with a digest of another algorithm, without a digest, and
\* with an "integrity" member that is no string
BuildLock(root, nSha, nOther, nMissing, nBad) ==
    LET body == [i \in 1..(nSha + nOther + nMissing + nBad) |->
                   LockEntry(<<"node_modules", "/", "pkg", i>>,
                             IF i <= nSha THEN Sha512Digest
                             ELSE IF i <= nSha + nOther THEN Sha1Digest
                             ELSE IF i <= nSha + nOther + nMissing THEN Undefined
                             ELSE NumberValue)]
    IN  JsonFile(TRUE,
                 IF root THEN <<LockEntry(RootKey, Undefined)>> \o body ELSE body)

VerifierLockFiles ==
    {AbsentFile, MalformedFile, UnreadableFile, JsonFile(FALSE, <<>>)} \cup
    { BuildLock(root, nSha, nOther, nMissing, nBad) :
        root \in BOOLEAN, nSha \in 0..MaxSha, nOther \in 0..1,
        nMissing \in 0..MaxMissing, nBad \in 0..1 }

\* the counting loop over Object.entries(pkgs): the root entry is skipped,
\* every other entry counts, an entry with a truthy "integrity" counts as
\* hashed, and as sha512 if that string starts with 'sha512-'; a truthy
\* "integrity" that is no string has no startsWith, and the loop throws
Counts(file) ==
    LET pkgs == IF file.hasPackages THEN file.packages ELSE <<>>
        counted == {i \in 1..Len(pkgs) : pkgs[i].name # <<>>}
        hashed == {i \in counted : Truthy(pkgs[i].integrity)}
    IN  [total |-> Cardinality(counted),
         withHash |-> Cardinality(hashed),
         sha512 |-> Cardinality({i \in hashed :
                         /\ pkgs[i].integrity.t = "string"
                         /\ StartsWith(pkgs[i].integrity.s, <<"sha512-">>)}),
         missing |-> Cardinality(counted \ hashed),
         threw |-> \E i \in hashed : pkgs[i].integrity.t # "string"]

\* ((withHash / total) * 100).toFixed(1), in tenths of a percent, for
\* total > 0: the quotient rounded to one decimal.  The double arithmetic
\* decides `rate >= 95` as the exact quotient does unless
\* 2000 * withHash = 1899 * total, which needs total to be a multiple of 2000.
RateTenths(withHash, total) == (2000 * withHash + total) \div (2 * total)

verifyIntegrity(file) ==
    IF file.kind # "json" THEN Returned(FALSE, "fail")
    ELSE LET c == Counts(file)
         IN  IF c.threw THEN Returned(FALSE, "fail")
             ELSE IF c.withHash = c.total THEN Returned(TRUE, "ok")
             ELSE IF RateTenths(c.withHash, c.total) >= 950 THEN Returned(TRUE, "warn")
             ELSE Returned(FALSE, "fail")

\* ---- 2. Security audit ----

\* `npm audit --json 2>/dev/null || true`: execSync throws (the shell cannot
\* be started, the output exceeds maxBuffer), or npm ends with a zero or a
\* non-zero status and its output is no JSON ("text"), the JSON value null,
\* or a JSON object with or without metadata.vulnerabilities
AuditOutputs ==
    { [kind |-> "throws", exit |-> "none", hasVulnerabilities |-> FALSE,
       v |-> [critical |-> 0, high |-> 0, moderate |-> 0, low |-> 0, info |-> 0]] } \cup
    { [kind |-> k, exit |-> x, hasVulnerabilities |-> FALSE,
       v |-> [critical |-> 0, high |-> 0, moderate |-> 0, low |-> 0, info |-> 0]] :
        k \in {"text", "null", "json"}, x \in {"zero", "nonzero"} } \cup
    { [kind |-> "json", exit |-> x, hasVulnerabilities |-> TRUE,
       v |-> [critical |-> c, high |-> h, moderate |-> m, low |-> l, info |-> n]] :
        x \in {"zero", "nonzero"},
        c \in 0..MaxCount, h \in 0..MaxCount, m \in 0..MaxCount,
        l \in 0..MaxCount, n \in 0..MaxCount }

\* execSync('npm audit --audit-level=high') returns or throws
CommandOutcomes == {"ok", "fails"}

\* the verdict on a parsed result that looks at the critical count alone
AuditVerdictCriticalOnly(v) ==
    IF v.critical > 0 THEN Returned(FALSE, "fail")
    ELSE IF v.moderate > 0 THEN Returned(TRUE, "warn")
    ELSE Returned(TRUE, "ok")

\* the verdict on a parsed result
AuditVerdict(v) ==
    IF v.critical > 0 \/ v.high > 0 THEN Returned(FALSE, "fail")
    ELSE IF v.moderate > 0 THEN Returned(TRUE, "warn")
    ELSE Returned(TRUE, "ok")

\* whether runAudit makes the threshold-mode invocation: JSON.parse threw, or
\* result.metadata threw on null
AuditFallsBack(out) == out.kind \in {"text", "null"}

\* runAudit without `|| true`: execSync throws on a non-zero status
runAuditNoMask(out, fallback) ==
    IF out.kind = "throws" \/ out.exit = "nonzero" THEN Returned(FALSE, "fail")
    ELSE IF AuditFallsBack(out)
    THEN (IF fallback = "ok" THEN Returned(TRUE, "ok") ELSE Returned(FALSE, "fail"))
    ELSE AuditVerdict(out.v)

\* runAudit; fallback is what the threshold-mode invocation does if it is made
runAudit(out, fallback) ==
    IF out.kind = "throws" THEN Returned(FALSE, "fail")
    ELSE IF AuditFallsBack(out)
    THEN (IF fallback = "ok" THEN Returned(TRUE, "ok") ELSE Returned(FALSE, "fail"))
    ELSE AuditVerdict(out.v)

\* ---- 3. Signature support ----

\* `npm --version`: execSync throws, or major.minor
NpmVersions ==
    { [kind |-> "throws", maj |-> 0, min |-> 0] } \cup
    { [kind |-> "version", maj |-> a, min |-> b] : a \in {7, 8, 9}, b \in {0, 14, 15, 16} }

SignatureOutcomes == {"ok", "fails", "timeout"}

SupportsSignatures(ver) == ver.maj > 8 \/ (ver.maj = 8 /\ ver.min >= 15)

\* verifySignatures that takes a failed signature audit for a failed check
verifySignaturesStrict(ver, sig) ==
    IF ver.kind = "throws" THEN Returned(TRUE, "warn")
    ELSE IF SupportsSignatures(ver)
    THEN (IF sig = "ok" THEN Returned(TRUE, "ok") ELSE Returned(FALSE, "fail"))
    ELSE Returned(TRUE, "warn")

verifySignatures(ver, sig) ==
    IF ver.kind = "throws" THEN Returned(TRUE, "warn")
    ELSE IF SupportsSignatures(ver)
    THEN Returned(TRUE, IF sig = "ok" THEN "ok" ELSE "warn")
    ELSE Returned(TRUE, "warn")

\* ---- 5. Trusted packages validation ----

EntryValues == {Undefined, Str(<<>>), Str(<<"foo">>)}

\* days since cfg.lastReviewed, when the member is there
ReviewAges == {30, 90, 91, 120}

\* a null in the "packages" list: reading p.name of it throws a TypeError
NullEntry == [isNull |-> TRUE]

VerifierTrustFiles ==
    { [file |-> f, hasLastReviewed |-> FALSE, daysSince |-> 0] :
        f \in {AbsentFile, MalformedFile, UnreadableFile, JsonFile(FALSE, <<>>)} } \cup
    { [file |-> JsonFile(TRUE, es), hasLastReviewed |-> has, daysSince |-> d] :
        es \in SeqsUpTo({TrustEntry(n, r) : n \in EntryValues, r \in EntryValues}
                          \cup {NullEntry},
                        MaxTrust),
        has \in BOOLEAN, d \in ReviewAges }

verifyTrustedPackages(cfg) ==
    IF cfg.file.kind = "absent" THEN Returned(TRUE, "warn")
    ELSE IF cfg.file.kind # "json" THEN Returned(FALSE, "fail")
    ELSE LET pkgs == IF cfg.file.hasPackages THEN cfg.file.packages ELSE <<>>
             \* pkgs.forEach throws inside the try
             throws == \E i \in 1..Len(pkgs) : pkgs[i] = NullEntry
             incomplete == \E i \in 1..Len(pkgs) :
                              ~Truthy(pkgs[i].name) \/ ~Truthy(pkgs[i].reason)
             stale == cfg.hasLastReviewed /\ cfg.daysSince > 90
         IN  IF Len(pkgs) = 0 THEN Returned(TRUE, "warn")
             ELSE IF throws THEN Returned(FALSE, "fail")
             ELSE Returned(TRUE, IF incomplete \/ stale THEN "warn" ELSE "ok")

\* ---- Main ----

\* Object.values(results).some(Boolean) in place of every
AllPassedSome(res) == \E k \in DOMAIN res : res[k]

\* Object.values(results).every(Boolean)
AllPassed(res) == \A k \in DOMAIN res : res[k]

\* a check has run: env holds what it read and what it handed back, and
\* control is back in main()
Ran(e) ==
    /\ env' = e
    /\ vpc' = "return"
    /\ UNCHANGED <<results, summary, vExited, vExitCode>>
    /\ UNCHANGED runnerVars

CheckNpmrc ==
    /\ vpc = "npmrc"
    /\ \E file \in NpmrcFiles :
         Ran([check |-> "npmrc", file |-> file, out |-> verifyNpmrc(file)])

CheckIntegrity ==
    /\ vpc = "integrity"
    /\ \E file \in VerifierLockFiles :
         Ran([check |-> "integrity", file |-> file, out |-> verifyIntegrity(file)])

CheckAudit ==
    /\ vpc = "audit"
    /\ \E o \in AuditOutputs : \E fallback \in CommandOutcomes :
         Ran([check |-> "audit", audit |-> o,
              fallback |-> IF AuditFallsBack(o) THEN fallback ELSE "not run",
              out |-> runAudit(o, fallback)])

CheckSignatures ==
    /\ vpc = "signatures"
    /\ \E ver \in NpmVersions : \E sig \in SignatureOutcomes :
         Ran([check |-> "signatures", ver |-> ver,
              sig |-> IF ver.kind = "version" /\ SupportsSignatures(ver)
                      THEN sig ELSE "not run",
              out |-> verifySignatures(ver, sig)])

CheckTrusted ==
    /\ vpc = "trusted"
    /\ \E cfg \in VerifierTrustFiles :
         Ran([check |-> "trusted", cfg |-> cfg, out |-> verifyTrustedPackages(cfg)])

\* the check main() evaluates after `check`
NextCheck(check) ==
    LET i == CHOOSE n \in 1..Len(CheckOrder) : CheckOrder[n] = check
    IN  IF i < Len(CheckOrder) THEN CheckOrder[i + 1] ELSE "summary"

\* main() puts what the check returned into the results object and goes on to
\* the next check; a check that threw rejects main(), whose catch handler
\* reports the error and exits with 1
StoreResult ==
    /\ vpc = "return"
    /\ IF env.out.threw
       THEN /\ vpc' = "exited"
            /\ vExited' = TRUE
            /\ vExitCode' = 1
            /\ UNCHANGED results
       ELSE /\ vpc' = NextCheck(env.check)
            /\ results' = [k \in DOMAIN results \cup {env.check} |->
                             IF k = env.check THEN env.out.ret ELSE results[k]]
            /\ UNCHANGED <<vExited, vExitCode>>
    /\ env' = [check |-> "none"]
    /\ UNCHANGED summary
    /\ UNCHANGED runnerVars

\* the Verification Summary and process.exit(allPassed ? 0 : 1)
Summarize ==
    /\ vpc = "summary"
    /\ summary' = [i \in 1..Len(CheckOrder) |->
                     [check |-> CheckOrder[i], passed |-> results[CheckOrder[i]]]]
    /\ vExitCode' = IF AllPassed(results) THEN 0 ELSE 1
    /\ vExited' = TRUE
    /\ vpc' = "exited"
    /\ UNCHANGED <<results, env>>
    /\ UNCHANGED runnerVars

\* the runner is not running
RunnerOff ==
    /\ trustFile = AbsentFile
    /\ lockFile = AbsentFile
    /\ pc = "off"
    /\ trusted = <<>>
    /\ installed = <<>>
    /\ toRebuild = <<>>
    /\ idx = 0
    /\ calls = <<>>
    /\ lockRead = FALSE
    /\ exited = FALSE
    /\ exitCode = 0
    /\ uncaught = FALSE

VerifierInit ==
    /\ vpc = "npmrc"
    /\ results = <<>>
    /\ env = [check |-> "none"]
    /\ summary = <<>>
    /\ vExited = FALSE
    /\ vExitCode = 0
    /\ RunnerOff

VerifierNext ==
    \/ CheckNpmrc
    \/ CheckIntegrity
    \/ CheckAudit
    \/ CheckSignatures
    \/ CheckTrusted
    \/ StoreResult
    \/ Summarize

SpecVerifier == VerifierInit /\ [][VerifierNext]_vars

-----------------------------------------------------------------------------
(* Verifier: properties *)

\* C6: the verifier exits with 0 exactly when all five checks returned true,
\* and with 1 otherwise.
C6_ExitIsConjunction ==
    vExited =>
        /\ vExitCode \in {0, 1}
        /\ vExitCode = 0 <=>
             (DOMAIN results = Checks /\ \A k \in Checks : results[k])

\* C6 witness: all five checks ran, the audit alone returned false, and the
\* process has exited.
C6_Witness ==
    /\ vExited
    /\ DOMAIN results = Checks
    /\ \A k \in Checks : results[k] <=> k # "audit"

\* C7: in every run all five checks are evaluated and the summary naming each
\* of them is printed before the process exits, whatever a check returns or
\* throws.
C7_EveryCheckRuns ==
    vExited =>
        /\ DOMAIN results = Checks
        /\ {summary[i].check : i \in 1..Len(summary)} = Checks

\* the non-root entries of the lockfile the integrity check read
NonRoot(file) == {i \in 1..Len(file.packages) : file.packages[i].name # RootKey}
\* those of them that carry a digest
WithDigest(file) ==
    {i \in NonRoot(file) :
        file.packages[i].integrity.t = "string" /\ file.packages[i].integrity.s # <<>>}

\* the integrity check has just run on a lockfile whose entries carry a
\* digest string or none
IntegrityRan ==
    /\ vpc = "return"
    /\ env.check = "integrity"
    /\ env.file.kind = "json"
    /\ \A i \in NonRoot(env.file) : env.file.packages[i].integrity.t # "number"

\* C8: with N non-root entries of which K carry a digest, the integrity check
\* passes when K = N, passes with a warning when K < N and K/N >= 95%, and
\* fails when K/N < 95%.
C8_CoverageThreshold ==
    IntegrityRan =>
        LET N == Cardinality(NonRoot(env.file))
            K == Cardinality(WithDigest(env.file))
        IN  /\ K = N => (env.out.ret /\ env.out.level = "ok")
            /\ (K < N /\ 100 * K >= 95 * N) => (env.out.ret /\ env.out.level = "warn")
            /\ 100 * K < 95 * N => ~env.out.ret

\* C9: whenever the integrity check passes, every non-root lockfile entry
\* carries a digest with the 'sha512-' prefix.
C9_PassMeansSha512 ==
    (vpc = "return" /\ env.check = "integrity" /\ env.out.ret) =>
        \A i \in NonRoot(env.file) :
            /\ env.file.packages[i].integrity.t = "string"
            /\ StartsWith(env.file.packages[i].integrity.s, <<"sha512-">>)

\* C10: on a parsed audit result the audit check fails if the critical or the
\* high count is above zero; otherwise it passes, with a warning exactly when
\* the moderate count is above zero; the low and informational counts play no
\* part.
C10_AuditPolicy ==
    (vpc = "return" /\ env.check = "audit" /\ env.audit.kind = "json") =>
        LET v == env.audit.v
        IN  IF v.critical > 0 \/ v.high > 0
            THEN ~env.out.ret
            ELSE /\ env.out.ret
                 /\ env.out.level = (IF v.moderate > 0 THEN "warn" ELSE "ok")

\* C10 witness: one high finding, no critical one, and low and informational
\* findings beside it: the check has returned false.
C10_Witness ==
    /\ vpc = "return"
    /\ env.check = "audit"
    /\ env.audit.kind = "json"
    /\ env.audit.v = [critical |-> 0, high |-> 1, moderate |-> 0, low |-> 1, info |-> 1]
    /\ ~env.out.ret

\* the audit check has just run
AuditRan == vpc = "return" /\ env.check = "audit"

\* the structured output was read and is not the expected result: no JSON,
\* or JSON without the severity breakdown
NotExpectedResult(o) ==
    \/ o.kind \in {"text", "null"}
    \/ o.kind = "json" /\ ~o.hasVulnerabilities

\* C11: whenever the structured audit output is not the expected result (no
\* valid JSON, or no vulnerability-severity breakdown), the audit check makes
\* the threshold-mode invocation and passes exactly when that one succeeds.
C11_FallbackOnUnexpected ==
    (AuditRan /\ NotExpectedResult(env.audit)) =>
        /\ env.fallback # "not run"
        /\ env.out.ret <=> env.fallback = "ok"

\* the audit check failed on reported critical/high findings
FailedOnFindings ==
    /\ env.audit.kind = "json"
    /\ env.audit.v.critical > 0 \/ env.audit.v.high > 0

\* C12 as claimed: a failure of the structured-output invocation (non-zero
\* exit, or the invocation raising) never fails the audit check: it fails
\* only on reported critical/high findings or a failing fallback.
C12_NoProcessFailureFails ==
    (AuditRan /\ ~env.out.ret) => (FailedOnFindings \/ env.fallback = "fails")

\* C12 as amended: the exit status of the structured-output invocation never
\* fails the audit check, and an invocation that raises always does: the
\* check fails only on reported critical/high findings, a failing fallback,
\* or the invocation raising.
C12_OnlyExitStatusMasked ==
    AuditRan =>
        /\ ~env.out.ret =>
             (FailedOnFindings \/ env.fallback = "fails" \/ env.audit.kind = "throws")
        /\ env.audit.kind = "throws" => (~env.out.ret /\ env.fallback = "not run")

\* C12 witness: npm ended with a non-zero status, its output reports moderate
\* findings only, and the check passed.
C12_Witness ==
    /\ AuditRan
    /\ env.audit.kind = "json" /\ env.audit.exit = "nonzero"
    /\ env.audit.hasVulnerabilities
    /\ env.audit.v.critical = 0 /\ env.audit.v.high = 0 /\ env.audit.v.moderate = 1
    /\ env.out.ret

\* C13: the trust-policy check passes whenever the document is absent or
\* parses as JSON: entries lacking a name or a justification (any malformed
\* individual entry) and a review date more than 90 days back only warn.
C13_TrustCheckPasses ==
    (vpc = "return" /\ env.check = "trusted"
       /\ env.cfg.file.kind \in {"absent", "json"}) => env.out.ret

C16_SignaturesNeverFail ==
    /\ (vpc = "return" /\ env.check = "signatures") =>
         /\ env.out.ret /\ ~env.out.threw
         /\ env.sig # "not run" <=>
              /\ env.ver.kind = "version"
              /\ env.ver.maj >= 9 \/ (env.ver.maj = 8 /\ env.ver.min >= 15)
    /\ "signatures" \in DOMAIN results => results["signatures"]

\* C16 witness: npm 8.15, the signature audit timed out, and the check has
\* returned true.
C16_Witness ==
    /\ vpc = "return"
    /\ env.check = "signatures"
    /\ env.ver = [kind |-> "version", maj |-> 8, min |-> 15]
    /\ env.sig = "timeout"
    /\ env.out.ret

-----------------------------------------------------------------------------
(* Script Runner: further properties *)

\* C15 (for the Script Runner): once an input file with unparseable JSON has
\* been read, the run has reported a failure and exited with a non-zero
\* status, and no uncaught exception has ended the process.
C15_MalformedJsonReported ==
    ( \/ trustFile.kind = "malformed" /\ pc # "load"
      \/ lockFile.kind = "malformed" /\ lockRead )
    => (exited /\ exitCode # 0 /\ ~uncaught)

\* a lockfile key of the form node_modules/<a>/node_modules/<rest>
NestedKey(k) ==
    /\ Len(k) >= 7
    /\ k[1] = "node_modules" /\ k[2] = "/"
    /\ k[4] = "/" /\ k[5] = "node_modules" /\ k[6] = "/"

\* C17: after the selection, a nested key node_modules/a/node_modules/b is
\* among the packages to rebuild exactly when some trust entry name equals
\* 'a/node_modules/b' or is a prefix of it that a '/' follows (never because
\* 'b' alone is trusted), and every rebuild is invoked with a stripped key.
C17_StripOnce ==
    (pc \in {"rebuild", "exited"} /\ lockRead /\ lockFile.kind = "json") =>
        /\ \A i \in 1..Len(installed) :
             NestedKey(installed[i]) =>
                LET n == SubSeq(installed[i], 3, Len(installed[i]))
                IN  (\E j \in 1..Len(toRebuild) : toRebuild[j] = n) <=> AllowListed(n)
        /\ \A i \in 1..Len(calls) : InstalledName(calls[i].pkg)

====
